---- MODULE Spec2Model ----
(***************************************************************************)
(* Model of weixin_image_upload_workflow.py: main() lists the image files  *)
(* of the directory img, fetches one access token, and for each of the     *)
(* first three image files uploads it as permanent material, uploads it as *)
(* an inline content image and creates a draft that references both.       *)
(*                                                                         *)
(* The remote service, the filesystem and the network are the environment: *)
(* every response the code can receive is drawn from a small set.          *)
(***************************************************************************)
EXTENDS Integers, Sequences, FiniteSets, TLC

VARIABLES
    pc,               \* position of main(): start, token, perm, content, draft, draft_wait, done, raised
    dirExists,        \* img_dir.exists()
    dirFiles,         \* img_dir.iterdir(): the suffix of each entry, in enumeration order
    image_files,      \* main's image_files: positions of dirFiles that passed the filter
    access_token,     \* main's access_token
    idx,              \* loop position inside image_files[:3] (1-based), 0 before the loop
    thumb_media_id,   \* main's thumb_media_id (kept across iterations, as Python does)
    content_img_url,  \* main's content_img_url (kept across iterations)
    result,           \* main's result
    tokenResp,        \* what the token endpoint answered
    uploadResp,       \* what the upload endpoint answered in the step just taken
    draftReq,         \* the draft request in flight
    draftResp,        \* what the draft endpoint answered in the step just taken
    permRet,          \* last return value of upload_permanent_image, with its image
    contentRet,       \* last return value of upload_content_image, with its image
    tokenCalls,       \* number of requests sent to TOKEN_URL
    callCount,        \* requests sent per <<endpoint, directory position>>
    sentTokens,       \* access_token values carried by upload and draft requests
    started,          \* directory positions whose loop body was entered, in order
    imgState,         \* per directory position: the per-image state
    reported,         \* which closing message main printed
    lastStep          \* the step main took last

vars == <<pc, dirExists, dirFiles, image_files, access_token, idx, thumb_media_id,
          content_img_url, result, tokenResp, uploadResp, draftReq, draftResp,
          permRet, contentRet, tokenCalls, callCount, sentTokens, started,
          imgState, reported, lastStep>>

-----------------------------------------------------------------------------
(* Bounds and program constants *)

\* largest number of directory entries explored
MaxFiles == 4

\* image_files[:3]
ImageCap == 3

\* errcode of an expired access token
TokenExpired == 40001

-----------------------------------------------------------------------------
(* Python values *)

\* Python's None, for a variable that otherwise holds a string
None == "<None>"

\* Python's True as returned by create_draft_with_image
PyTrue == "<True>"

\* truth value of a string, None or True: None and "" are false
Truthy(v) == v # None /\ v # ""

\* dict.get(key): the value, or None when the key is absent
DictGet(has, value) == IF has THEN value ELSE None

-----------------------------------------------------------------------------
(* File suffixes as sequences of character codes *)

SfxJpg  == <<46, 106, 112, 103>>
SfxJpeg == <<46, 106, 112, 101, 103>>
SfxPng  == <<46, 112, 110, 103>>
SfxGif  == <<46, 103, 105, 102>>
SfxBmp  == <<46, 98, 109, 112>>
SfxPNGUpper == <<46, 80, 78, 71>>
SfxTxt  == <<46, 116, 120, 116>>

\* the suffixes the directory entries are drawn from
Suffixes == {SfxJpg, SfxPNGUpper, SfxTxt}

\* ['.jpg', '.jpeg', '.png', '.gif', '.bmp']
ImageSuffixes == {SfxJpg, SfxJpeg, SfxPng, SfxGif, SfxBmp}

\* str.lower() on character codes: A..Z become a..z
Lower(s) == [i \in DOMAIN s |-> IF s[i] >= 65 /\ s[i] <= 90 THEN s[i] + 32 ELSE s[i]]

\* the filter without .lower()
IsImage_case_sensitive(s) == s \in ImageSuffixes

\* f.suffix.lower() in [...]
IsImage(s) == Lower(s) \in ImageSuffixes

\* the list comprehension over iterdir(): positions (from k on) that pass the filter
RECURSIVE FilterFrom(_, _)
FilterFrom(files, k) ==
    IF k > Len(files) THEN <<>>
    ELSE IF IsImage(files[k]) THEN <<k>> \o FilterFrom(files, k + 1)
    ELSE FilterFrom(files, k + 1)

\* image_files[:3]
Slice(seq) == IF Len(seq) <= ImageCap THEN seq ELSE SubSeq(seq, 1, ImageCap)

-----------------------------------------------------------------------------
(* What the environment can answer *)

\* answers without a JSON object: transport failure, timeout, a non-2xx status
\* (raise_for_status), a body that is not JSON, a JSON body that is no object
TokenFailKinds == {"neterr", "timeout", "http_error", "badjson", "nondict"}

\* answers of the token endpoint; "nondict" is a JSON body that is not an object
TokenResponses ==
    {[kind |-> k, has_errcode |-> FALSE, errcode |-> 0, has_token |-> FALSE, token |-> None] :
        k \in TokenFailKinds}
    \cup
    {r \in [kind : {"dict"}, has_errcode : BOOLEAN, errcode : {0, TokenExpired},
            has_token : BOOLEAN, token : {None, "", "t1"}] :
        /\ (~r.has_errcode => r.errcode = 0)
        /\ (~r.has_token => r.token = None)}

\* identifiers and URLs the upload endpoints hand out
MediaIds == {"m1", "m2"}
Urls == {"u1", "u2"}

\* outcomes of an upload step for the field values `refs`: the file cannot be
\* opened, the request fails, the body is not JSON, the body is a JSON number,
\* the body is a JSON list without the key, or the body is a JSON object
UploadResponses(refs) ==
    {[kind |-> k, has_field |-> FALSE, value |-> None] :
        k \in {"open_error", "neterr", "badjson", "json_number", "json_list"}}
    \cup
    {r \in [kind : {"dict"}, has_field : BOOLEAN, value : {None, ""} \cup refs] :
        ~r.has_field => r.value = None}

\* answers of the draft endpoint
DraftResponses ==
    {[kind |-> k, has_media_id |-> FALSE, media_id |-> None, has_errcode |-> FALSE, errcode |-> 0] :
        k \in {"neterr", "timeout", "badjson", "nondict"}}
    \cup
    {r \in [kind : {"dict"}, has_media_id : BOOLEAN, media_id : {None, "", "X"},
            has_errcode : BOOLEAN, errcode : {0, TokenExpired, -1}] :
        /\ (~r.has_media_id => r.media_id = None)
        /\ (~r.has_errcode => r.errcode = 0)}

NoTokenResp == [kind |-> "none", has_errcode |-> FALSE, errcode |-> 0, has_token |-> FALSE, token |-> None]
NoUploadResp == [kind |-> "none", has_field |-> FALSE, value |-> None]
NoDraftResp == [kind |-> "none", has_media_id |-> FALSE, media_id |-> None, has_errcode |-> FALSE, errcode |-> 0]
NoDraftReq == [img |-> 0, thumb_media_id |-> None, img_src |-> None, access_token |-> None]
NoRet == [img |-> 0, val |-> None]

-----------------------------------------------------------------------------
(* The functions of the program, on the response they receive *)

\* get_access_token that looks for access_token before it looks for errcode
get_access_token_token_first(resp) ==
    IF resp.kind # "dict" THEN None
    ELSE IF resp.has_token THEN resp.token
    ELSE None

\* get_access_token: None on any exception, on a body with errcode, on a body
\* without access_token; a body that is not an object has neither key
get_access_token(resp) ==
    IF resp.kind # "dict" THEN None
    ELSE IF resp.has_errcode THEN None
    ELSE IF ~resp.has_token THEN None
    ELSE resp.token

\* the exceptions that leave upload_permanent_image / upload_content_image:
\* open() fails, requests.post raises, response.json() raises, `in` on a number raises
UploadRaises(resp) == resp.kind \in {"open_error", "neterr", "badjson", "json_number"}

\* a request reaches the endpoint unless open() failed before it
UploadSendsRequest(resp) == resp.kind # "open_error"

\* upload_permanent_image when no exception leaves it
upload_permanent_image(resp) ==
    IF resp.kind = "dict" /\ resp.has_field THEN resp.value ELSE None

\* upload_content_image when no exception leaves it
upload_content_image(resp) ==
    IF resp.kind = "dict" /\ resp.has_field THEN resp.value ELSE None

\* create_draft_with_image with `if not errcode` in place of `if errcode == 0`
create_draft_no_errcode(resp) ==
    IF resp.kind # "dict" THEN None
    ELSE LET media_id == DictGet(resp.has_media_id, resp.media_id)
         IN  IF Truthy(media_id) THEN PyTrue
             ELSE IF ~resp.has_errcode \/ resp.errcode = 0 THEN PyTrue
             ELSE None

\* create_draft_with_image on the response: True or None
create_draft_with_image(resp) ==
    IF resp.kind # "dict" THEN None
    ELSE LET media_id == DictGet(resp.has_media_id, resp.media_id)
         IN  IF Truthy(media_id) THEN PyTrue
             ELSE IF resp.has_errcode /\ resp.errcode = 0 THEN PyTrue
             ELSE None

\* lines 154-160 with the refresh the comment of line 156 suggests
token_after_draft_refresh(token, resp) ==
    IF /\ resp.kind = "dict"
       /\ ~Truthy(DictGet(resp.has_media_id, resp.media_id))
       /\ resp.has_errcode /\ resp.errcode = TokenExpired
    THEN "t_refreshed"
    ELSE token

\* lines 154-160: a failure is printed, with a hint when errcode is 40001;
\* the token main holds is the one it held before
token_after_draft(token, resp) == token

\* line 180 with the check left out
NoImages_unchecked(files) == FALSE

\* line 180: `if not image_files`
NoImages(files) == files = <<>>

\* line 188: `if not access_token`
TokenMissing(token) == ~Truthy(token)

\* line 198: `if not thumb_media_id`
ThumbMissing(media_id) == ~Truthy(media_id)

\* line 204 as `if content_img_url is None`
UrlMissing_is_none(url) == url = None

\* line 204: `if not content_img_url`
UrlMissing(url) == ~Truthy(url)

-----------------------------------------------------------------------------
(* Initial states *)

RECURSIVE SeqsUpTo(_, _)
SeqsUpTo(S, n) ==
    IF n = 0 THEN {<<>>}
    ELSE LET shorter == SeqsUpTo(S, n - 1)
         IN  shorter \cup {Append(q, x) : q \in {t \in shorter : Len(t) = n - 1}, x \in S}

Init ==
    /\ pc = "start"
    /\ dirExists \in BOOLEAN
    /\ dirFiles \in SeqsUpTo(Suffixes, MaxFiles)
    /\ (~dirExists => dirFiles = <<>>)
    /\ image_files = <<>>
    /\ access_token = None
    /\ idx = 0
    /\ thumb_media_id = None
    /\ content_img_url = None
    /\ result = None
    /\ tokenResp = NoTokenResp
    /\ uploadResp = NoUploadResp
    /\ draftReq = NoDraftReq
    /\ draftResp = NoDraftResp
    /\ permRet = NoRet
    /\ contentRet = NoRet
    /\ tokenCalls = 0
    /\ callCount = [c \in {"perm", "content", "draft"} \X (1..Len(dirFiles)) |-> 0]
    /\ sentTokens = {}
    /\ started = <<>>
    /\ imgState = [f \in 1..Len(dirFiles) |-> "Start"]
    /\ reported = "none"
    /\ lastStep = "none"

-----------------------------------------------------------------------------
(* Steps of main() *)

\* the image the loop is at
CurImg == Slice(image_files)[idx]

\* the for statement giving a finished image one more round before it moves on
NextImage_retry(st) ==
    IF idx > 0 /\ callCount[<<"perm", Slice(image_files)[idx]>>] < 2
    THEN /\ pc' = "perm"
         /\ idx' = idx
         /\ started' = started
         /\ imgState' = [st EXCEPT ![Slice(image_files)[idx]] = "TokenReady"]
         /\ reported' = reported
    ELSE IF idx < Len(Slice(image_files))
    THEN /\ pc' = "perm"
         /\ idx' = idx + 1
         /\ started' = Append(started, Slice(image_files)[idx + 1])
         /\ imgState' = [st EXCEPT ![Slice(image_files)[idx + 1]] = "TokenReady"]
         /\ reported' = reported
    ELSE /\ pc' = "done"
         /\ idx' = idx
         /\ started' = started
         /\ imgState' = st
         /\ reported' = "complete"

\* the for statement of line 193, entered (idx = 0) or reached again after the
\* body of image idx: the next image of image_files[:3], or the closing lines
NextImage(st) ==
    IF idx < Len(Slice(image_files))
    THEN /\ pc' = "perm"
         /\ idx' = idx + 1
         /\ started' = Append(started, Slice(image_files)[idx + 1])
         /\ imgState' = [st EXCEPT ![Slice(image_files)[idx + 1]] = "TokenReady"]
         /\ reported' = reported
    ELSE /\ pc' = "done"
         /\ idx' = idx
         /\ started' = started
         /\ imgState' = st
         /\ reported' = "complete"

\* `break` in place of `continue`
SkipImage_break(st) ==
    /\ pc' = "done"
    /\ idx' = idx
    /\ started' = started
    /\ imgState' = st
    /\ reported' = "complete"

\* `continue` of lines 200 and 206
SkipImage(st) == NextImage(st)

\* an exception leaves main(): the traceback ends the process
Raise ==
    /\ pc' = "raised"
    /\ UNCHANGED <<idx, started, imgState, reported>>

\* lines 172-184: the directory check and the filter
ListImages ==
    /\ pc = "start"
    /\ lastStep' = "list"
    /\ IF ~dirExists
       THEN /\ reported' = "no_dir"
            /\ pc' = "done"
            /\ image_files' = image_files
       ELSE /\ image_files' = FilterFrom(dirFiles, 1)
            /\ IF NoImages(image_files')
               THEN reported' = "no_images" /\ pc' = "done"
               ELSE reported' = reported /\ pc' = "token"
    /\ UNCHANGED <<dirExists, dirFiles, access_token, idx, thumb_media_id, content_img_url,
                   result, tokenResp, uploadResp, draftReq, draftResp, permRet, contentRet,
                   tokenCalls, callCount, sentTokens, started, imgState>>

\* lines 187-194: the token fetch, its check, and the entry of the loop
GetToken ==
    /\ pc = "token"
    /\ \E resp \in TokenResponses :
        /\ tokenResp' = resp
        /\ tokenCalls' = tokenCalls + 1
        /\ access_token' = get_access_token(resp)
        /\ IF TokenMissing(access_token')
           THEN /\ reported' = "no_token"
                /\ pc' = "done"
                /\ UNCHANGED <<idx, started, imgState>>
           ELSE NextImage(imgState)
    /\ lastStep' = "token"
    /\ UNCHANGED <<dirExists, dirFiles, image_files, thumb_media_id, content_img_url,
                   result, uploadResp, draftReq, draftResp, permRet, contentRet,
                   callCount, sentTokens>>

\* lines 197-200: upload_permanent_image and the check of its result
UploadPermanent ==
    /\ pc = "perm"
    /\ \E resp \in UploadResponses(MediaIds) :
        /\ uploadResp' = resp
        /\ IF UploadSendsRequest(resp)
           THEN /\ callCount' = [callCount EXCEPT ![<<"perm", CurImg>>] = @ + 1]
                /\ sentTokens' = sentTokens \cup {access_token}
           ELSE UNCHANGED <<callCount, sentTokens>>
        /\ IF UploadRaises(resp)
           THEN /\ Raise
                /\ UNCHANGED <<thumb_media_id, permRet>>
           ELSE /\ thumb_media_id' = upload_permanent_image(resp)
                /\ permRet' = [img |-> CurImg, val |-> thumb_media_id']
                /\ IF ThumbMissing(thumb_media_id')
                   THEN SkipImage([imgState EXCEPT ![CurImg] = "Failed"])
                   ELSE /\ pc' = "content"
                        /\ imgState' = [imgState EXCEPT ![CurImg] = "ThumbnailUploaded"]
                        /\ UNCHANGED <<idx, started, reported>>
    /\ lastStep' = "perm"
    /\ draftResp' = NoDraftResp
    /\ UNCHANGED <<dirExists, dirFiles, image_files, access_token, content_img_url, result,
                   tokenResp, draftReq, contentRet, tokenCalls>>

\* lines 203-206: upload_content_image and the check of its result
UploadContent ==
    /\ pc = "content"
    /\ \E resp \in UploadResponses(Urls) :
        /\ uploadResp' = resp
        /\ IF UploadSendsRequest(resp)
           THEN /\ callCount' = [callCount EXCEPT ![<<"content", CurImg>>] = @ + 1]
                /\ sentTokens' = sentTokens \cup {access_token}
           ELSE UNCHANGED <<callCount, sentTokens>>
        /\ IF UploadRaises(resp)
           THEN /\ Raise
                /\ UNCHANGED <<content_img_url, contentRet>>
           ELSE /\ content_img_url' = upload_content_image(resp)
                /\ contentRet' = [img |-> CurImg, val |-> content_img_url']
                /\ IF UrlMissing(content_img_url')
                   THEN SkipImage([imgState EXCEPT ![CurImg] = "Failed"])
                   ELSE /\ pc' = "draft"
                        /\ imgState' = [imgState EXCEPT ![CurImg] = "ContentImageUploaded"]
                        /\ UNCHANGED <<idx, started, reported>>
    /\ lastStep' = "content"
    /\ draftResp' = NoDraftResp
    /\ UNCHANGED <<dirExists, dirFiles, image_files, access_token, thumb_media_id, result,
                   tokenResp, draftReq, permRet, tokenCalls>>

\* lines 209-212 and 103-126: the body is built from content_img_url, the
\* draft from thumb_media_id, and the request is posted
SubmitDraft ==
    /\ pc = "draft"
    /\ draftReq' = [img |-> CurImg, thumb_media_id |-> thumb_media_id,
                    img_src |-> content_img_url, access_token |-> access_token]
    /\ callCount' = [callCount EXCEPT ![<<"draft", CurImg>>] = @ + 1]
    /\ sentTokens' = sentTokens \cup {access_token}
    /\ imgState' = [imgState EXCEPT ![CurImg] = "DraftSubmitted"]
    /\ pc' = "draft_wait"
    /\ lastStep' = "submit"
    /\ uploadResp' = NoUploadResp
    /\ UNCHANGED <<dirExists, dirFiles, image_files, access_token, idx, thumb_media_id,
                   content_img_url, result, tokenResp, draftResp, permRet, contentRet,
                   tokenCalls, started, reported>>

\* lines 128-164 and 214-219: the response is judged, main prints the outcome
\* and the loop goes on
DraftReturn ==
    /\ pc = "draft_wait"
    /\ \E resp \in DraftResponses :
        /\ draftResp' = resp
        /\ result' = create_draft_with_image(resp)
        /\ access_token' = token_after_draft(access_token, resp)
        /\ draftReq' = NoDraftReq
        /\ NextImage([imgState EXCEPT ![CurImg] = IF Truthy(result') THEN "Success" ELSE "Failed"])
    /\ lastStep' = "draft"
    /\ UNCHANGED <<dirExists, dirFiles, image_files, thumb_media_id,
                   content_img_url, tokenResp, uploadResp, permRet, contentRet,
                   tokenCalls, callCount, sentTokens>>

Next ==
    \/ ListImages
    \/ GetToken
    \/ UploadPermanent
    \/ UploadContent
    \/ SubmitDraft
    \/ DraftReturn

Spec == Init /\ [][Next]_vars

\* main() is one sequential thread: while it has not returned it takes its next
\* step, and every blocking call is taken to return
FairSpec == Spec /\ WF_vars(Next)

-----------------------------------------------------------------------------
(* Vocabulary of the properties, stated on the directory and the responses *)

\* two character codes are the same letter up to case
SameCharNoCase(a, b) ==
    \/ a = b
    \/ a >= 65 /\ a <= 90 /\ b = a + 32
    \/ b >= 65 /\ b <= 90 /\ a = b + 32

\* the suffix is one of jpg/jpeg/png/gif/bmp, case-insensitively
Qualifies(s) ==
    \E e \in ImageSuffixes :
        /\ Len(e) = Len(s)
        /\ \A i \in 1..Len(e) : SameCharNoCase(s[i], e[i])

\* positions of the qualifying entries of the directory
QualPos == {k \in 1..Len(dirFiles) : Qualifies(dirFiles[k])}

\* min(n, 3) for n qualifying images
Processable == IF Cardinality(QualPos) < ImageCap THEN Cardinality(QualPos) ELSE ImageCap

\* the j-th qualifying image in enumeration order
NthQualifying(j) == CHOOSE k \in QualPos : Cardinality({q \in QualPos : q < k}) = j - 1

Endpoints == {"perm", "content", "draft"}

\* no request was sent to an upload or draft endpoint
NoUploadOrDraftCall == \A c \in DOMAIN callCount : callCount[c] = 0

\* upload_permanent_image was called for the image at directory position f
PermAttempted(f) ==
    /\ \E j \in 1..Len(started) : started[j] = f
    /\ ~(pc = "perm" /\ CurImg = f)

Terminated == pc \in {"done", "raised"}

-----------------------------------------------------------------------------
(* C1 *)

\* the body contains a non-empty media_id
BodyHasMediaId(b) == b.kind = "dict" /\ b.has_media_id /\ b.media_id # None /\ b.media_id # ""

\* the body contains an errcode equal to 0
BodyErrcodeZero(b) == b.kind = "dict" /\ b.has_errcode /\ b.errcode = 0

\* C1: right after a draft response was judged, create_draft_with_image
\* returned True exactly when the body holds a non-empty media_id, or holds no
\* (or an empty) media_id and an errcode equal to 0; every other answer, also
\* an errcode of 40001 and an answer that is no JSON object, is a failure.
C1_DraftSuccessExactly ==
    lastStep = "draft" =>
        /\ (result = PyTrue) <=> (BodyHasMediaId(draftResp) \/ BodyErrcodeZero(draftResp))
        /\ (result # PyTrue) => result = None
        /\ (draftResp.kind = "dict" /\ draftResp.has_errcode /\ draftResp.errcode = TokenExpired
              /\ ~BodyHasMediaId(draftResp)) => result = None

\* a body {"errcode": 0} without media_id was judged a success
C1_Witness ==
    /\ lastStep = "draft"
    /\ draftResp.kind = "dict" /\ ~draftResp.has_media_id
    /\ draftResp.has_errcode /\ draftResp.errcode = 0
    /\ result = PyTrue

-----------------------------------------------------------------------------
(* C2 *)

\* C2: a draft request posted for an image comes after both uploads of that
\* image returned a non-empty value in this iteration, and carries exactly
\* those two values.
C2_DraftUsesThisIterationsUploads ==
    /\ (draftReq # NoDraftReq) <=> (lastStep = "submit")
    /\ lastStep = "submit" =>
        /\ draftReq.img = CurImg
        /\ permRet.img = draftReq.img /\ contentRet.img = draftReq.img
        /\ permRet.val \in MediaIds /\ contentRet.val \in Urls
        /\ draftReq.thumb_media_id = permRet.val
        /\ draftReq.img_src = contentRet.val
        /\ callCount[<<"perm", draftReq.img>>] = 1
        /\ callCount[<<"content", draftReq.img>>] = 1

\* the draft of a second image is posted after the first image got its own draft
C2_Witness ==
    /\ lastStep = "submit"
    /\ idx = 2
    /\ imgState[Slice(image_files)[1]] \in {"Success", "Failed"}
    /\ callCount[<<"draft", Slice(image_files)[1]>>] = 1
    /\ draftReq.thumb_media_id = "m2"

-----------------------------------------------------------------------------
(* C3 *)

\* the token fetch signals failure: an exception, a body with an error code,
\* or a body without a token
TokenFetchFailed(r) ==
    \/ r.kind \in {"neterr", "timeout", "http_error", "badjson"}
    \/ r.kind = "dict" /\ r.has_errcode
    \/ r.kind \in {"dict", "nondict"} /\ ~r.has_token

\* C3: once the token fetch signalled failure, no upload and no draft request
\* is ever sent, no image is started, and main has returned.
C3_TokenFailureStopsRun ==
    (tokenCalls > 0 /\ TokenFetchFailed(tokenResp)) =>
        /\ NoUploadOrDraftCall
        /\ started = <<>>
        /\ pc = "done"
        /\ reported = "no_token"

\* the token endpoint answered with an error code next to a token
C3_Witness ==
    /\ tokenCalls = 1
    /\ tokenResp.kind = "dict" /\ tokenResp.has_errcode /\ tokenResp.has_token
    /\ tokenResp.token = "t1"
    /\ pc = "done"

-----------------------------------------------------------------------------
(* C7 *)

\* C7: with the directory missing or without a qualifying image, main reports
\* it and sends no request at all, not even to the token endpoint.
C7_NoImagesNoNetwork ==
    (~dirExists \/ QualPos = {}) =>
        /\ tokenCalls = 0
        /\ NoUploadOrDraftCall
        /\ pc \in {"start", "done"}
        /\ (pc = "done" => reported = (IF dirExists THEN "no_images" ELSE "no_dir"))

\* a directory that holds files, none of them an image, was reported
C7_Witness ==
    /\ dirExists /\ Len(dirFiles) >= 2 /\ QualPos = {}
    /\ pc = "done" /\ reported = "no_images"

-----------------------------------------------------------------------------
(* C4 *)

\* the upload step just taken failed: the file could not be opened, the
\* request or the decoding of its answer raised, or the field was absent
UploadStepFailed ==
    /\ lastStep \in {"perm", "content"}
    /\ \/ uploadResp.kind \in {"open_error", "neterr", "badjson"}
       \/ uploadResp.kind = "dict" /\ ~uploadResp.has_field

\* C4: a failed upload step only abandons the current image: the loop goes on
\* with the next image or reaches its end, and main returns normally.
C4_UploadFailureOnlySkipsImage ==
    /\ pc # "raised"
    /\ UploadStepFailed => (pc \in {"perm", "done"} /\ (pc = "done" => reported = "complete"))

-----------------------------------------------------------------------------
(* C5 *)

\* the upload step just taken, for the j-th image of the run, got a JSON
\* object without the expected field
MissingField(j) ==
    /\ j <= Len(started)
    /\ uploadResp.kind = "dict" /\ ~uploadResp.has_field
    /\ \/ lastStep = "perm" /\ permRet.img = started[j]
       \/ lastStep = "content" /\ contentRet.img = started[j]

\* no draft request was posted for the j-th image of the run
NoDraftFor(j) == j <= Len(started) => callCount[<<"draft", started[j]>>] = 0

\* upload_permanent_image was called for the j-th image of the run
PermAttemptedFor(j) == j <= Len(started) /\ ~(pc = "perm" /\ idx = j)

\* C5: when an upload answer for image i lacks the expected field, image i is
\* given up without a draft, no draft is ever posted for it later, and if
\* image i+1 is among the first three images its permanent upload is attempted.
C5_MissingFieldSkipsImage ==
    /\ \A j \in 1..(ImageCap - 1) :
         (MissingField(j) /\ j < Processable) ~> PermAttemptedFor(j + 1)
    /\ [](\A j \in 1..ImageCap :
             MissingField(j) => (NoDraftFor(j) /\ imgState[started[j]] = "Failed"))
    /\ [][\A f \in 1..Len(dirFiles) :
             (imgState[f] = "Failed" /\ callCount[<<"draft", f>>] = 0)
                => (imgState'[f] = "Failed" /\ callCount'[<<"draft", f>>] = 0)]_vars

\* the first image lost its inline upload to a missing url, and the second
\* image had its permanent upload
C5_Witness ==
    /\ Cardinality(QualPos) >= 2
    /\ imgState[NthQualifying(1)] = "Failed"
    /\ callCount[<<"content", NthQualifying(1)>>] = 1
    /\ callCount[<<"draft", NthQualifying(1)>>] = 0
    /\ callCount[<<"perm", NthQualifying(2)>>] = 1

-----------------------------------------------------------------------------
(* C6 *)

\* C6: the images started are, in enumeration order, the first qualifying
\* images, never more than three; no request is sent for any other directory
\* entry; and when main got a token and returned, all of the first min(n, 3)
\* were started.
C6_FirstThreeInOrder ==
    LET qual == QualPos
        cap == IF Cardinality(qual) < ImageCap THEN Cardinality(qual) ELSE ImageCap
        run == {started[j] : j \in 1..Len(started)}
    IN  /\ Len(started) <= cap
        /\ \A j \in 1..Len(started) :
             /\ started[j] \in qual
             /\ Cardinality({q \in qual : q < started[j]}) = j - 1
        /\ \A c \in DOMAIN callCount : callCount[c] > 0 => c[2] \in run
        /\ \A f \in 1..Len(dirFiles) : imgState[f] # "Start" => f \in run
        /\ (pc = "done" /\ reported = "complete") => Len(started) = cap

\* four images, one of them with an upper-case suffix: three were processed
C6_Witness ==
    /\ Cardinality(QualPos) = 4
    /\ \E k \in 1..ImageCap : dirFiles[k] = SfxPNGUpper
    /\ pc = "done"
    /\ Len(started) = ImageCap
    /\ \A j \in 1..ImageCap : callCount[<<"perm", j>>] = 1
    /\ callCount[<<"perm", 4>>] = 0

-----------------------------------------------------------------------------
(* C8 *)

\* C8: the token endpoint is called at most once and before any upload; every
\* upload and draft request carries the token it returned; and once fetched,
\* the token is neither changed nor fetched again, whatever a draft answers.
C8_OneTokenPerRun ==
    /\ [](/\ tokenCalls <= 1
          /\ (~NoUploadOrDraftCall => tokenCalls = 1)
          /\ \A t \in sentTokens : t = tokenResp.token /\ t = access_token /\ Truthy(t))
    /\ [][tokenCalls > 0 => (tokenCalls' = tokenCalls /\ access_token' = access_token)]_vars

\* a draft was answered with errcode 40001 and the run goes on to the next image
C8_Witness ==
    /\ lastStep = "draft"
    /\ draftResp.has_errcode /\ draftResp.errcode = TokenExpired /\ ~draftResp.has_media_id
    /\ pc = "perm"
    /\ tokenCalls = 1
    /\ sentTokens = {access_token}

-----------------------------------------------------------------------------
(* C9 *)

\* the steps of an image come in order: the inline upload after a permanent
\* upload that succeeded, the draft after an inline upload that succeeded
C9_StepsInOrder ==
    \A f \in 1..Len(dirFiles) :
        /\ callCount[<<"content", f>>] > 0 =>
             (callCount[<<"perm", f>>] = 1 /\ imgState[f] \notin {"Start", "TokenReady"})
        /\ callCount[<<"draft", f>>] > 0 =>
             (callCount[<<"content", f>>] = 1
              /\ imgState[f] \in {"DraftSubmitted", "Success", "Failed"})
        /\ imgState[f] = "Success" => callCount[<<"draft", f>>] = 1
        /\ imgState[f] \in {"ThumbnailUploaded", "ContentImageUploaded"} =>
             callCount[<<"perm", f>>] = 1

\* C9: each image goes through the per-image state machine in order, and
\* when the run is over every started image has ended in Success or Failed.
C9_PerImageStateMachine ==
    /\ C9_StepsInOrder
    /\ Terminated =>
         \A j \in 1..Len(started) : imgState[started[j]] \in {"Success", "Failed"}

-----------------------------------------------------------------------------
(* C10 *)

RECURSIVE SumCalls(_)
SumCalls(S) ==
    IF S = {} THEN 0
    ELSE LET c == CHOOSE x \in S : TRUE IN callCount[c] + SumCalls(S \ {c})

\* C10: no endpoint is called twice for one image, a run sends at most
\* 1 + 3 * min(n, 3) requests, and every run ends.
C10_NoRetryAndTermination ==
    /\ [](/\ \A c \in DOMAIN callCount : callCount[c] <= 1
          /\ tokenCalls <= 1
          /\ tokenCalls + SumCalls(DOMAIN callCount) <= 1 + 3 * Processable)
    /\ <>Terminated

\* a run that sent all ten requests and returned, the last draft having failed
C10_Witness ==
    /\ pc = "done"
    /\ tokenCalls + SumCalls(DOMAIN callCount) = 1 + 3 * ImageCap
    /\ result = None

====
